---- MODULE Spec2Model ----
(***************************************************************************)
(* DiagTask (diagtask.cpp / diagtask.hpp): a serial diagnostic console.    *)
(* process() pulls one byte per call from the byte source and matches the  *)
(* accumulated input against the registered hook names.                    *)
(*                                                                         *)
(* Characters are their ASCII codes, C strings are sequences of codes      *)
(* (without the terminating NUL).                                          *)
(***************************************************************************)
EXTENDS Integers, Sequences, FiniteSets, TLC

VARIABLES mHooks, mFeatures, mCurrentValidInput, mGetchar, mUptime, mReboot,
          count, rebootCalls, pc, calls, out, last

vars == <<mHooks, mFeatures, mCurrentValidInput, mGetchar, mUptime, mReboot,
          count, rebootCalls, pc, calls, out, last>>

-----------------------------------------------------------------------------
(* Configuration macros of diagtask.hpp (#ifndef-guarded, user-definable).  *)
(* The model runs a small configuration of them: names of at most 2        *)
(* characters and an input buffer of 3 (shipped defaults: 20 and 20+10,    *)
(* description capacity 20).                                               *)

DIAGTASK_MAX_HOOKNAME_LEN == 2

DIAGTASK_MAX_HOOK_INPUT_LEN == DIAGTASK_MAX_HOOKNAME_LEN + 1

DIAGTASK_MIN_HOOKNAME_LEN == 1

DIAGTASK_HOOKDESC_LEN == 1

DIAGTASK_ENABLE_HELP == 1

DIAGTASK_ENABLE_SEPARATOR == 1

DIAGTASK_ENABLE_SEARCH == 0

DIAGTASK_ENABLE_REBOOT == 1

DIAGTASK_ENABLE_TAB_COMPLETION == 1

\* '?'
SPECIAL_KEYWORD_HELP == 63

\* '#'
SPECIAL_KEYWORD_SEPARATOR == 35

\* '/'
SPECIAL_KEYWORD_SEARCH == 47

\* '\t'
SPECIAL_KEYWORD_TAB == 9

\* '!'
SPECIAL_KEYWORD_REBOOT == 33

\* '*'
SPECIAL_KEYWORD_WILDCARD == 42

\* '\0', '\r', '\n' of the end-of-line normalisation
CH_NUL == 0

CH_CR == 13

CH_LF == 10

feature_None == 0

feature_Help == 1

feature_Seperator == 2

feature_Search == 4

feature_Reboot == 8

feature_TabCompletion == 16

-----------------------------------------------------------------------------
(* Bounds of the explored environment.                                      *)

\* number of hooks the application registers
MaxHooks == 2

\* number of separator commands issued
MaxSeparators == 1

-----------------------------------------------------------------------------
(* Pointers: a C string argument is NULL or points to a string; a function  *)
(* pointer is 0 (NULL) or the identity (> 0) of a function.                 *)

NULLSTR == [null |-> TRUE, s |-> <<>>]

Str(s) == [null |-> FALSE, s |-> s]

NULLFN == 0

-----------------------------------------------------------------------------
(* Inputs of the environment.                                               *)

\* what the byte source returns: -1 (nothing pending) or a byte
\* (NUL, tab, LF, CR, '!', '#', '/', '?', 'a')
GetchValues == {-1, CH_NUL, SPECIAL_KEYWORD_TAB, CH_LF, CH_CR,
                SPECIAL_KEYWORD_REBOOT, SPECIAL_KEYWORD_SEPARATOR,
                SPECIAL_KEYWORD_SEARCH, SPECIAL_KEYWORD_HELP, 97}

\* what the uptime source returns
UptimeValues == {5}

\* what a read past the end of a name array may find
GarbageValues == { <<>>, <<120>> }

\* "a" repeated n times
RECURSIVE Rep(_)
Rep(n) == IF n <= 0 THEN <<>> ELSE <<97>> \o Rep(n - 1)

Reg(name, hookIsNull, description) ==
  [name |-> name, hookIsNull |-> hookIsNull, description |-> description]

\* the argument lists the application calls registerHook with (the callback
\* is a function of its own for every call, or a null pointer):
\* "a/" (with the default description ""), "a?" and "?" (with the
\* description "dd", longer than the capacity);
\* and the faulty ones: a null callback, a null name, both, the name "" and
\* a name one longer than the maximum
RegisterValues ==
  { Reg(Str(<<97, 47>>), FALSE, Str(<<>>)),
    Reg(Str(<<97, 63>>), FALSE, NULLSTR),
    Reg(Str(<<63>>), FALSE, Str(<<100, 100>>)),
    Reg(Str(<<97>>), TRUE, NULLSTR),
    Reg(NULLSTR, FALSE, NULLSTR),
    Reg(NULLSTR, TRUE, NULLSTR),
    Reg(Str(<<>>), FALSE, NULLSTR),
    Reg(Str(Rep(DIAGTASK_MAX_HOOKNAME_LEN + 1)), FALSE, NULLSTR) }

\* feature masks passed to enableFeatures: none, help alone, all but help, all
FeatureValues ==
  { feature_None,
    feature_Help,
    feature_Seperator + feature_Search + feature_Reboot + feature_TabCompletion,
    feature_Help + feature_Seperator + feature_Search + feature_Reboot
      + feature_TabCompletion }

(* The wildcard environment: an application whose hooks take arguments,     *)
(* typed on a terminal that sends 'a', tab and the three line ends; the     *)
(* application also calls hooks by name.                                    *)

\* -1 (nothing pending), NUL, tab, LF, CR, 'a'
WildGetchValues == {-1, CH_NUL, SPECIAL_KEYWORD_TAB, CH_LF, CH_CR, 97}

\* "a*", "*a", "a" and "aa"
WildRegisterValues ==
  { Reg(Str(<<97, 42>>), FALSE, NULLSTR),
    Reg(Str(<<42, 97>>), FALSE, NULLSTR),
    Reg(Str(<<97>>), FALSE, NULLSTR),
    Reg(Str(<<97, 97>>), FALSE, NULLSTR) }

WildFeatureValues == { feature_None, feature_TabCompletion }

\* names passed to executeHook: "a", "aa" and a null pointer
ExecuteValues == { Str(<<97>>), Str(<<97, 97>>), NULLSTR }

-----------------------------------------------------------------------------
(* C library helpers.                                                       *)

Min(a, b) == IF a <= b THEN a ELSE b

\* strncpy(dst, src, n); dst[n] = '\0' : the first n characters of src
strncpy(src, n) == SubSeq(src, 1, Min(n, Len(src)))

\* strchr(s, ch) - s : index (from 0) of the first ch in s; -1 for NULL
strchr(s, ch) ==
  IF \E i \in 1..Len(s) : s[i] = ch
  THEN (CHOOSE i \in 1..Len(s) : s[i] = ch /\ \A j \in 1..(i - 1) : s[j] # ch) - 1
  ELSE -1

\* strncmp(a, b, n) == 0, for n <= strlen(a) and n <= strlen(b)
strncmpEq(a, b, n) == \A i \in 1..n : a[i] = b[i]

\* (mutant) the feature mask is not looked at
HasBit_Always(mask, bit) == TRUE

\* (mask & bit) != 0 for a single-bit value
HasBit(mask, bit) == (mask \div bit) % 2 = 1

-----------------------------------------------------------------------------
(* privFindHooks: the registry positions of the candidates, in order.       *)

\* (mutant) the whole name is compared, the wildcard marker included
Matches_WholeName(h, prefix) ==
  strncmpEq(h.name, prefix, Min(Len(h.name), Len(prefix)))

\* the test of one hook h against prefix
Matches(h, prefix) ==
  LET posWildcard == strchr(h.name, SPECIAL_KEYWORD_WILDCARD)
      lenHook     == IF posWildcard = -1 THEN Len(h.name) ELSE posWildcard
      lenMin      == Min(lenHook, Len(prefix))
  IN  strncmpEq(h.name, prefix, lenMin)

RECURSIVE FilterFrom(_, _, _)
FilterFrom(hooks, i, prefix) ==
  IF i > Len(hooks) THEN <<>>
  ELSE (IF Matches(hooks[i], prefix) THEN <<i>> ELSE <<>>)
       \o FilterFrom(hooks, i + 1, prefix)

privFindHooks(hooks, prefix) == FilterFrom(hooks, 1, prefix)

-----------------------------------------------------------------------------
(* The three constructors: DiagTask(getch), DiagTask(getch, uptime) and     *)
(* DiagTask(getch, uptime, reboot); getch itself may be a null pointer.     *)

\* the record of the last call: which operation, the byte the byte source
\* returned and how often it was asked, the branch process() took, and
\* registerHook's arguments and result
Call(op, c, reads, path, name, hook, ret) ==
  [op |-> op, reads |-> reads, path |-> path, ret |-> ret]

Init ==
  /\ mHooks = <<>>
  /\ mFeatures = feature_None
  /\ mCurrentValidInput = <<>>
  /\ mGetchar \in BOOLEAN
  /\ mUptime \in BOOLEAN
  /\ mReboot \in BOOLEAN
  /\ (mReboot => mUptime)
  /\ (~mGetchar => ~mUptime)
  /\ count = 0
  /\ rebootCalls = 0
  /\ pc = "idle"
  /\ calls = <<>>
  /\ out = <<>>
  /\ last = Call("init", -1, 0, "none", NULLSTR, NULLFN, FALSE)

-----------------------------------------------------------------------------
(* registerHook and enableFeatures.                                         *)

\* (mutant) a name of exactly the maximum length is rejected
BadNameLen_Strict(len) ==
  len < DIAGTASK_MIN_HOOKNAME_LEN \/ len >= DIAGTASK_MAX_HOOKNAME_LEN

\* the name-length test of registerHook: TRUE when the name is rejected
BadNameLen(len) ==
  len < DIAGTASK_MIN_HOOKNAME_LEN \/ len > DIAGTASK_MAX_HOOKNAME_LEN

\* the entry registerHook builds
NewEntry(name, hook, description) ==
  [ name        |-> strncpy(name.s, DIAGTASK_MAX_HOOKNAME_LEN),
    hook        |-> hook,
    description |-> IF ~description.null
                    THEN strncpy(description.s, DIAGTASK_HOOKDESC_LEN)
                    ELSE <<>> ]

\* (mutant) the entry is put in front
PushBack_Front(hooks, entry) == <<entry>> \o hooks

\* mHooks.push_back(entry)
PushBack(hooks, entry) == Append(hooks, entry)

registerHook(name, hook, description) ==
  /\ pc = "idle"
  /\ IF name.null \/ hook = NULLFN
     THEN /\ mHooks' = mHooks
          /\ last' = Call("registerHook", -1, 0, "none", name, hook, FALSE)
     ELSE IF BadNameLen(Len(name.s))
     THEN /\ mHooks' = mHooks
          /\ last' = Call("registerHook", -1, 0, "none", name, hook, FALSE)
     ELSE /\ Len(mHooks) < MaxHooks
          /\ mHooks' = PushBack(mHooks, NewEntry(name, hook, description))
          /\ last' = Call("registerHook", -1, 0, "none", name, hook, TRUE)
  /\ calls' = <<>>
  /\ out' = <<>>
  /\ rebootCalls' = 0
  /\ UNCHANGED <<mFeatures, mCurrentValidInput, mGetchar, mUptime, mReboot,
                 count, pc>>

enableFeatures(features) ==
  /\ pc = "idle"
  /\ mFeatures' = features
  /\ last' = Call("enableFeatures", -1, 0, "none", NULLSTR, NULLFN, FALSE)
  /\ calls' = <<>>
  /\ out' = <<>>
  /\ rebootCalls' = 0
  /\ UNCHANGED <<mHooks, mCurrentValidInput, mGetchar, mUptime, mReboot,
                 count, pc>>

\* executeHook: { //TODO: implement  return false; }
executeHook(name) ==
  /\ pc = "idle"
  /\ last' = Call("executeHook", -1, 0, "none", name, NULLFN, FALSE)
  /\ calls' = <<>>
  /\ out' = <<>>
  /\ rebootCalls' = 0
  /\ UNCHANGED <<mHooks, mFeatures, mCurrentValidInput, mGetchar, mUptime,
                 mReboot, count, pc>>

-----------------------------------------------------------------------------
(* Output and callback events of one call.                                  *)

\* putchar(ch) of the echo
Echo(ch) == [ev |-> "echo", ch |-> ch]

\* putchar('\n') / printf("\n")
Newline == [ev |-> "newline"]

\* h.hook(arg)
Invoke(h, arg) == [hook |-> h.hook, arg |-> arg]

\* privHelp: the special-command lines, then every hook's name and description
privHelp == << [ev |-> "help", hooks |-> mHooks] >>

\* (mutant) the counter is incremented before the banner is printed
privDisplaySeparator_PreIncrement(u) ==
  [ out   |-> << [ev |-> "separator", count |-> count + 1,
                  uptime |-> IF mUptime THEN u ELSE 0] >>,
    count |-> count + 1 ]

\* privDisplaySeparator: the banner with the counter and the uptime, count++
\* (count is a uint32_t; MaxSeparators keeps it far from wrapping)
privDisplaySeparator(u) ==
  [ out   |-> << [ev |-> "separator", count |-> count,
                  uptime |-> IF mUptime THEN u ELSE 0] >>,
    count |-> count + 1 ]

-----------------------------------------------------------------------------
(* privCheckAndProcessSpecialChars: kind is the command executed, "none"    *)
(* when the function returns false; the reboot command never returns.       *)

Special(kind, o, cnt) == [kind |-> kind, out |-> o, count |-> cnt]

privCheckAndProcessSpecialChars(input, u) ==
  IF /\ DIAGTASK_ENABLE_HELP = 1
     /\ HasBit(mFeatures, feature_Help)
     /\ input = SPECIAL_KEYWORD_HELP
  THEN Special("help", privHelp, count)
  ELSE IF /\ DIAGTASK_ENABLE_SEPARATOR = 1
          /\ HasBit(mFeatures, feature_Seperator)
          /\ input = SPECIAL_KEYWORD_SEPARATOR
  THEN Special("separator", privDisplaySeparator(u).out, privDisplaySeparator(u).count)
  ELSE IF /\ DIAGTASK_ENABLE_REBOOT = 1
          /\ HasBit(mFeatures, feature_Reboot)
          /\ mReboot
          /\ input = SPECIAL_KEYWORD_REBOOT
  THEN Special("reboot", << [ev |-> "rebooting"] >>, count)
  ELSE IF /\ DIAGTASK_ENABLE_SEARCH = 1
          /\ HasBit(mFeatures, feature_Search)
          /\ input = SPECIAL_KEYWORD_SEARCH
  THEN Special("search", << [ev |-> "not implemented"] >>, count)
  ELSE Special("none", <<>>, count)

-----------------------------------------------------------------------------
(* processTabCompetion.                                                     *)

\* the string at &name[len]: the name array is NUL-padded by strncpy up to
\* its last cell; beyond the array the read picks up whatever lies there (g)
Suffix(name, len, g) ==
  IF len <= DIAGTASK_MAX_HOOKNAME_LEN
  THEN SubSeq(name, len + 1, Len(name))
  ELSE g

\* the line printed for candidate h
Candidate(h, g) ==
  [ ev          |-> "candidate",
    typed       |-> mCurrentValidInput,
    suffix      |-> Suffix(h.name, Len(mCurrentValidInput), g),
    description |-> h.description ]

Tab(handled, buf, c, o) == [handled |-> handled, buf |-> buf, calls |-> c, out |-> o]

\* (mutant) the input is kept after the only candidate's callback ran
processTabCompetion_KeepsInput(input, g) ==
  IF /\ DIAGTASK_ENABLE_TAB_COMPLETION = 1
     /\ HasBit(mFeatures, feature_TabCompletion)
     /\ input = SPECIAL_KEYWORD_TAB
  THEN IF mCurrentValidInput # <<>>
       THEN LET filterredHooks == privFindHooks(mHooks, mCurrentValidInput)
            IN  IF Len(filterredHooks) = 1
                THEN Tab(TRUE, mCurrentValidInput,
                         << Invoke(mHooks[filterredHooks[1]], <<>>) >>,
                         << [ev |-> "completed",
                             name |-> mHooks[filterredHooks[1]].name] >>)
                ELSE Tab(TRUE, mCurrentValidInput, <<>>,
                         << Newline >> \o
                         [k \in 1..Len(filterredHooks) |->
                            Candidate(mHooks[filterredHooks[k]], g)])
       ELSE Tab(TRUE, mCurrentValidInput, <<>>, <<>>)
  ELSE Tab(FALSE, mCurrentValidInput, <<>>, <<>>)

processTabCompetion(input, g) ==
  IF /\ DIAGTASK_ENABLE_TAB_COMPLETION = 1
     /\ HasBit(mFeatures, feature_TabCompletion)
     /\ input = SPECIAL_KEYWORD_TAB
  THEN IF mCurrentValidInput # <<>>
       THEN LET filterredHooks == privFindHooks(mHooks, mCurrentValidInput)
            IN  IF Len(filterredHooks) = 1
                THEN Tab(TRUE, <<>>,
                         << Invoke(mHooks[filterredHooks[1]], <<>>) >>,
                         << [ev |-> "completed",
                             name |-> mHooks[filterredHooks[1]].name] >>)
                ELSE Tab(TRUE, mCurrentValidInput, <<>>,
                         << Newline >> \o
                         [k \in 1..Len(filterredHooks) |->
                            Candidate(mHooks[filterredHooks[k]], g)])
       ELSE Tab(TRUE, mCurrentValidInput, <<>>, <<>>)
  ELSE Tab(FALSE, mCurrentValidInput, <<>>, <<>>)

-----------------------------------------------------------------------------
(* process.                                                                 *)

\* (mutant) only the carriage return is replaced
Normalize_OnlyCR(c) == IF c = CH_CR THEN CH_LF ELSE c

\* '\0' and '\r' are replaced by '\n'
Normalize(c) == IF c = CH_NUL \/ c = CH_CR THEN CH_LF ELSE c

\* the characters the echo skips
EchoSkipped == { SPECIAL_KEYWORD_TAB, SPECIAL_KEYWORD_SEPARATOR,
                 SPECIAL_KEYWORD_HELP, SPECIAL_KEYWORD_REBOOT }

EchoOf(c) == IF c \notin EchoSkipped THEN << Echo(c) >> ELSE <<>>

\* (mutant) the test comes one character late
IsFull_Late(len) == len = DIAGTASK_MAX_HOOK_INPUT_LEN + 1

\* (mutant) the test is missing
IsFull_Never(len) == FALSE

\* len == DIAGTASK_MAX_HOOK_INPUT_LEN : the buffer is full
IsFull(len) == len = DIAGTASK_MAX_HOOK_INPUT_LEN

\* (mutant) special characters are looked at anywhere in the line
SpecialAllowed_Always(buf) == TRUE

\* mCurrentValidInput[0] == '\0' : special characters are looked at
SpecialAllowed(buf) == buf = <<>>

\* (mutant) an input that selects no hook is kept
NoHookFound_Never(filterredHooks) == FALSE

\* filterredHooks.size() == 0 : c did not select a hook
NoHookFound(filterredHooks) == Len(filterredHooks) = 0

\* (mutant) the first candidate is taken although there are several
CompleteMatch_FirstOfMany(filterredHooks, input) ==
  /\ Len(filterredHooks) >= 1
  /\ Len(input) >= Len(mHooks[filterredHooks[1]].name)

\* one candidate, and the input is at least as long as its name
CompleteMatch(filterredHooks, input) ==
  /\ Len(filterredHooks) = 1
  /\ Len(input) >= Len(mHooks[filterredHooks[1]].name)

\* (mutant) the callback gets the whole line, as the README has it
WildcardArg_WholeLine(stripped, name) == stripped

\* &mCurrentValidInput[argIdx] after the '\n' was removed
WildcardArg(stripped, name) ==
  LET argIdx == strchr(name, SPECIAL_KEYWORD_WILDCARD)
  IN  SubSeq(stripped, argIdx + 1, Len(stripped))

Result(buf, c, o, cnt, path) ==
  [buf |-> buf, calls |-> c, out |-> o, count |-> cnt, path |-> path]

\* the character is stored and the hooks are searched
AppendAndMatch(c) ==
  LET len            == Len(mCurrentValidInput)
      input          == Append(mCurrentValidInput, c)
      filterredHooks == privFindHooks(mHooks, input)
      h              == mHooks[filterredHooks[1]]
  IN  IF NoHookFound(filterredHooks)
      THEN Result(<<>>, <<>>, <<>>, count, "append")
      ELSE IF CompleteMatch(filterredHooks, input)
      THEN IF strchr(h.name, SPECIAL_KEYWORD_WILDCARD) # -1
           THEN IF input[len + 1] = CH_LF
                THEN Result(<<>>,
                            << Invoke(h, WildcardArg(SubSeq(input, 1, len), h.name)) >>,
                            << Newline >>, count, "append")
                ELSE Result(input, <<>>, <<>>, count, "append")
           ELSE Result(<<>>, << Invoke(h, <<>>) >>, << Newline >>, count, "append")
      ELSE Result(input, <<>>, <<>>, count, "append")

\* the body of the while loop, for the normalised character c
Loop(c, u, g) ==
  LET special == privCheckAndProcessSpecialChars(c, u)
      tab     == processTabCompetion(c, g)
  IN  IF IsFull(Len(mCurrentValidInput))
      THEN Result(<<>>, <<>>, <<>>, count, "full")
      ELSE IF SpecialAllowed(mCurrentValidInput) /\ special.kind # "none"
      THEN Result(<<>>, <<>>, special.out, special.count, special.kind)
      ELSE IF tab.handled
      THEN Result(tab.buf, tab.calls, tab.out, count, "tab")
      ELSE AppendAndMatch(c)

\* (mutant) -1 is taken for a byte
NoByte_Below(c) == c < -1

\* printf("rebooting\n"); mReboot(); while(1); when mReboot() returns: the
\* loop has no side effect, so it is undefined behaviour (forward progress)
\* and a build either keeps it, and process() never returns, or drops it:
\* then privCheckAndProcessSpecialChars runs on to its return false and the
\* character is stored like any other
RebootReturned(c) ==
  LET r == AppendAndMatch(c)
  IN  Result(r.buf, r.calls, << [ev |-> "rebooting"] >> \o r.out, r.count,
             "rebootreturned")

\* what one pass of the while loop may do
LoopOutcomes(c, u, g) ==
  IF Loop(c, u, g).path = "reboot"
  THEN { Loop(c, u, g), RebootReturned(c) }
  ELSE { Loop(c, u, g) }

\* c < 0 : no byte was received
NoByte(c) == c < 0

process(c, u, g) ==
  /\ pc = "idle"
  /\ IF ~mGetchar
     THEN /\ last' = Call("process", -1, 0, "nogetch", NULLSTR, NULLFN, FALSE)
          /\ calls' = <<>>
          /\ out' = <<>>
          /\ rebootCalls' = 0
          /\ UNCHANGED <<mCurrentValidInput, count, pc>>
     ELSE IF NoByte(c)
     THEN /\ last' = Call("process", c, 1, "nobyte", NULLSTR, NULLFN, FALSE)
          /\ calls' = <<>>
          /\ out' = <<>>
          /\ rebootCalls' = 0
          /\ UNCHANGED <<mCurrentValidInput, count, pc>>
     ELSE \E r \in LoopOutcomes(Normalize(c), u, g) :
              /\ (r.path = "separator" => count < MaxSeparators)
              /\ last' = Call("process", c, 1, r.path, NULLSTR, NULLFN, FALSE)
              /\ mCurrentValidInput' = r.buf
              /\ calls' = r.calls
              /\ out' = EchoOf(Normalize(c)) \o r.out
              /\ count' = r.count
              /\ rebootCalls' = IF r.path \in {"reboot", "rebootreturned"}
                                THEN 1 ELSE 0
              /\ pc' = IF r.path = "reboot" THEN "while1" ELSE "idle"
  /\ UNCHANGED <<mHooks, mFeatures, mGetchar, mUptime, mReboot>>

-----------------------------------------------------------------------------
(* The application calls the three operations in any order, from one        *)
(* context; after the reboot command process() never returns.               *)

ProcessOver(bytes) ==
  \E c \in bytes, u \in UptimeValues :
    \E g \in IF Len(mCurrentValidInput) > DIAGTASK_MAX_HOOKNAME_LEN
             THEN GarbageValues ELSE { <<>> } :
      process(c, u, g)

RegisterHookOver(args) ==
  \E r \in args :
    registerHook(r.name, IF r.hookIsNull THEN NULLFN ELSE Len(mHooks) + 1,
                 r.description)

EnableFeaturesOver(masks) == \E features \in masks : enableFeatures(features)

Process == ProcessOver(GetchValues)

RegisterHook == RegisterHookOver(RegisterValues)

EnableFeatures == EnableFeaturesOver(FeatureValues)

Next == Process \/ RegisterHook \/ EnableFeatures

Spec == Init /\ [][Next]_vars

\* the wildcard environment, on an instance built by DiagTask(getch)
WildInit == Init /\ mGetchar /\ ~mUptime /\ ~mReboot

WildProcess == ProcessOver(WildGetchValues)

WildRegisterHook == RegisterHookOver(WildRegisterValues)

WildEnableFeatures == EnableFeaturesOver(WildFeatureValues)

WildExecuteHook == \E name \in ExecuteValues : executeHook(name)

WildNext ==
  WildProcess \/ WildRegisterHook \/ WildEnableFeatures \/ WildExecuteHook

SpecWild == WildInit /\ [][WildNext]_vars

-----------------------------------------------------------------------------
(* Vocabulary of the properties, after the specification's sections 4.2,    *)
(* 4.3 and 4.6.                                                             *)

HasWildcard(name) == \E i \in 1..Len(name) : name[i] = SPECIAL_KEYWORD_WILDCARD

\* the number of characters before the wildcard marker, or the whole length
StaticLen(name) ==
  IF HasWildcard(name)
  THEN Cardinality({ i \in 1..Len(name) :
                       \A j \in 1..i : name[j] # SPECIAL_KEYWORD_WILDCARD })
  ELSE Len(name)

\* name and text agree on the shorter of name's static portion and text
IsCandidate(name, text) ==
  \A i \in 1..Len(name) :
    (i <= StaticLen(name) /\ i <= Len(text)) => name[i] = text[i]

\* the registry positions of the candidates of text
CandidatesOf(text) ==
  { i \in 1..Len(mHooks) : IsCandidate(mHooks[i].name, text) }

\* this step is a process() call that read c from the byte source
ProcessStep(c) == ProcessOver({c})

\* this step is a process() call that read c and stored it in the buffer
Typed(c) == last'.op = "process" /\ last'.path = "append" /\ ProcessStep(c)

\* the buffer with the character read as c stored in it
Accumulated(c) == Append(mCurrentValidInput, Normalize(c))

-----------------------------------------------------------------------------
-----------------------------------------------------------------------------
-----------------------------------------------------------------------------
(* What it means that a stored character was matched as hook-name text.     *)

SpecialTriggers == { SPECIAL_KEYWORD_HELP, SPECIAL_KEYWORD_SEPARATOR,
                     SPECIAL_KEYWORD_SEARCH, SPECIAL_KEYWORD_REBOOT }

SpecialOutput == { "help", "separator", "rebooting", "not implemented" }

\* this step is a process() call that got the byte c from the byte source
Received(c) == last'.op = "process" /\ mGetchar /\ c >= 0 /\ ProcessStep(c)

\* the character was stored and matched against the hook names: no candidate
\* resets the buffer, a callback of a candidate consumes it, else it is kept;
\* no special command ran
MatchedAsText(c) ==
  LET cand == CandidatesOf(Accumulated(c))
  IN  /\ last'.path = "append"
      /\ cand = {} => (calls' = <<>> /\ mCurrentValidInput' = <<>>)
      /\ (cand # {} /\ calls' = <<>>) => mCurrentValidInput' = Accumulated(c)
      /\ calls' # <<>> =>
           /\ Len(calls') = 1
           /\ \E i \in cand : calls'[1].hook = mHooks[i].hook
           /\ mCurrentValidInput' = <<>>
      /\ \A k \in 1..Len(out') : out'[k].ev \notin SpecialOutput
      /\ count' = count
      /\ pc' = "idle"

\* the character was dropped together with the buffer
Discarded ==
  /\ last'.path = "full"
  /\ mCurrentValidInput' = <<>>
  /\ calls' = <<>>
  /\ \A k \in 1..Len(out') : out'[k].ev \notin SpecialOutput
  /\ count' = count
  /\ pc' = "idle"

\* the bit of a feature in a mask
BitSet(mask, bit) == (mask % (2 * bit)) >= bit

-----------------------------------------------------------------------------
\* C3 (as stated): '?', '#', '/' and '!' are dispatched as special commands
\* only when the buffer is empty; whenever the buffer is not empty the
\* character is appended and matched as hook-name text.
C3_Original ==
  [][ \A c \in GetchValues :
        (Normalize(c) \in SpecialTriggers /\ Received(c)) =>
          /\ last'.path \in {"help", "separator", "search", "reboot"}
               => mCurrentValidInput = <<>>
          /\ mCurrentValidInput # <<>> => MatchedAsText(c)
    ]_vars

\* C3 (amended): '?', '#', '/' and '!' are dispatched as special commands
\* only when the buffer is empty; when the buffer is not empty and not full
\* the character is appended and matched as hook-name text; when the buffer
\* is full the character is dropped and the buffer reset.
C3_SpecialOnlyOnEmptyBuffer ==
  [][ \A c \in GetchValues :
        (Normalize(c) \in SpecialTriggers /\ Received(c)) =>
          /\ last'.path \in {"help", "separator", "search", "reboot"}
               => mCurrentValidInput = <<>>
          /\ ( /\ mCurrentValidInput # <<>>
               /\ Len(mCurrentValidInput) < DIAGTASK_MAX_HOOK_INPUT_LEN )
               => MatchedAsText(c)
          /\ Len(mCurrentValidInput) = DIAGTASK_MAX_HOOK_INPUT_LEN => Discarded
    ]_vars

\* C3 witness: help is enabled and the '?' typed after "a" has just invoked
\* the hook "a?"; nothing else was printed than the echo and the newline.
C3_Witness ==
  /\ BitSet(mFeatures, feature_Help)
  /\ last.op = "process" /\ last.path = "append"
  /\ \E i \in 1..Len(mHooks) :
       /\ mHooks[i].name = <<97, SPECIAL_KEYWORD_HELP>>
       /\ calls = << [hook |-> mHooks[i].hook, arg |-> <<>>] >>
  /\ \A k \in 1..Len(out) : out[k].ev \notin SpecialOutput

-----------------------------------------------------------------------------
\* C4 (as stated): with tab completion enabled and a non-empty buffer, the
\* tab character invokes the only candidate's callback once with an empty
\* argument and resets the buffer; with two or more candidates it invokes
\* nothing and leaves the buffer unchanged; the tab is never appended.
C4_TabCompletion ==
  [][ \A c \in GetchValues :
        ( /\ Normalize(c) = SPECIAL_KEYWORD_TAB
          /\ BitSet(mFeatures, feature_TabCompletion)
          /\ mCurrentValidInput # <<>>
          /\ Received(c) ) =>
          LET cand == CandidatesOf(mCurrentValidInput)
          IN  /\ \A i \in cand :
                   cand = {i} =>
                     /\ calls' = << [hook |-> mHooks[i].hook, arg |-> <<>>] >>
                     /\ mCurrentValidInput' = <<>>
              /\ Cardinality(cand) >= 2 =>
                   /\ calls' = <<>>
                   /\ mCurrentValidInput' = mCurrentValidInput
              /\ mCurrentValidInput' # Accumulated(c)
    ]_vars

-----------------------------------------------------------------------------
\* C5: a character that arrives while the buffer holds
\* DIAGTASK_MAX_HOOK_INPUT_LEN characters resets the buffer to empty, is
\* itself dropped, and no callback is invoked.
C5_OverflowResets ==
  [][ \A c \in GetchValues :
        (Len(mCurrentValidInput) = DIAGTASK_MAX_HOOK_INPUT_LEN /\ Received(c))
          => /\ mCurrentValidInput' = <<>>
             /\ calls' = <<>>
             /\ last'.path = "full"
    ]_vars

\* C5 witness: a character has just arrived at a full buffer.
C5_Witness ==
  /\ last.op = "process" /\ last.path = "full"
  /\ mCurrentValidInput = <<>>
  /\ calls = <<>>

-----------------------------------------------------------------------------
\* C6: in every reachable state the buffer holds at most
\* DIAGTASK_MAX_HOOK_INPUT_LEN characters.
C6_BufferBounded == Len(mCurrentValidInput) <= DIAGTASK_MAX_HOOK_INPUT_LEN

\* C6 witness: the buffer holds exactly DIAGTASK_MAX_HOOK_INPUT_LEN
\* characters.
C6_Witness ==
  /\ Len(mCurrentValidInput) = DIAGTASK_MAX_HOOK_INPUT_LEN
  /\ last.op = "process" /\ last.path = "append"

-----------------------------------------------------------------------------
(* The registerHook calls of the environment.                               *)

HookOf(r) == IF r.hookIsNull THEN NULLFN ELSE Len(mHooks) + 1

\* this step is the call registerHook(r.name, hook, r.description)
Registered(r) ==
  /\ last'.op = "registerHook"
  /\ registerHook(r.name, HookOf(r), r.description)

\* C7: registerHook returns false and leaves the registry unchanged when the
\* name is null, the callback is null, or the name is shorter than
\* DIAGTASK_MIN_HOOKNAME_LEN or longer than DIAGTASK_MAX_HOOKNAME_LEN; a name
\* of exactly the minimum or exactly the maximum length is accepted.
C7_RegisterRejects ==
  [][ \A r \in RegisterValues :
        Registered(r) =>
          LET rejected ==
                \/ r.name.null
                \/ r.hookIsNull
                \/ Len(r.name.s) < DIAGTASK_MIN_HOOKNAME_LEN
                \/ Len(r.name.s) > DIAGTASK_MAX_HOOKNAME_LEN
          IN  /\ rejected => (~last'.ret /\ mHooks' = mHooks)
              /\ ( /\ ~r.name.null
                   /\ ~r.hookIsNull
                   /\ Len(r.name.s) \in { DIAGTASK_MIN_HOOKNAME_LEN,
                                          DIAGTASK_MAX_HOOKNAME_LEN } )
                   => (last'.ret /\ Len(mHooks') = Len(mHooks) + 1)
    ]_vars

\* C7 witness: names of the minimum and of the maximum length are in the
\* registry, and a registration has just been rejected.
C7_Witness ==
  /\ last.op = "registerHook" /\ ~last.ret
  /\ \E i \in 1..Len(mHooks) : Len(mHooks[i].name) = DIAGTASK_MIN_HOOKNAME_LEN
  /\ \E i \in 1..Len(mHooks) : Len(mHooks[i].name) = DIAGTASK_MAX_HOOKNAME_LEN

-----------------------------------------------------------------------------
\* the candidate search returns both of two entries with the same name, or
\* neither, for every part of a registered name typed so far, and returns
\* the positions in registration order
DuplicatesFound(hooks) ==
  \A n \in 1..Len(hooks) :
    \A k \in 0..Len(hooks[n].name) :
      LET found == privFindHooks(hooks, SubSeq(hooks[n].name, 1, k))
          at    == { found[x] : x \in 1..Len(found) }
      IN  /\ \A x, y \in 1..Len(found) : x < y => found[x] < found[y]
          /\ \A i, j \in 1..Len(hooks) :
               hooks[i].name = hooks[j].name => (i \in at <=> j \in at)
          /\ n \in at

\* C8: a successful registerHook appends exactly one entry at the end of the
\* registry; no operation removes, moves or modifies a registered entry;
\* names are not de-duplicated, and the candidate search returns entries
\* with the same name together, in registration order.
C8_RegistryAppendOnly ==
  [][ /\ Len(mHooks') >= Len(mHooks)
      /\ \A i \in 1..Len(mHooks) : mHooks'[i] = mHooks[i]
      /\ \A r \in RegisterValues :
           (Registered(r) /\ last'.ret) =>
              /\ Len(mHooks') = Len(mHooks) + 1
              /\ mHooks'[Len(mHooks')].name = r.name.s
              /\ mHooks'[Len(mHooks')].hook = HookOf(r)
      /\ (last'.op # "registerHook" \/ ~last'.ret) => mHooks' = mHooks
      /\ mHooks' # mHooks => DuplicatesFound(mHooks')
    ]_vars

\* C8 witness: the same name has just been registered a second time; the
\* registry holds both entries and the candidate search returns both.
C8_Witness ==
  /\ last.op = "registerHook" /\ last.ret
  /\ Len(mHooks) = 2
  /\ mHooks[1].name = mHooks[2].name
  /\ mHooks[1].hook # mHooks[2].hook
  /\ privFindHooks(mHooks, mHooks[1].name) = <<1, 2>>

-----------------------------------------------------------------------------
\* C9: a process() call made when the byte source has no byte (it returns a
\* negative value), or when there is no byte source, changes neither buffer,
\* registry, feature mask nor separator counter, invokes no callback and
\* prints nothing; every process() call asks the byte source at most once.
C9_NoByteNoEffect ==
  [][ /\ \A c \in GetchValues :
           (last'.op = "process" /\ (~mGetchar \/ c < 0) /\ ProcessStep(c))
             => /\ UNCHANGED <<mCurrentValidInput, mHooks, mFeatures, count>>
                /\ calls' = <<>>
                /\ out' = <<>>
                /\ pc' = pc
      /\ last'.op = "process" => last'.reads <= 1
      /\ (last'.op = "process" /\ ~mGetchar) => last'.reads = 0
    ]_vars

\* C9 witness: the byte source has just reported no byte while a command was
\* partly typed.
C9_Witness ==
  /\ last.op = "process" /\ last.path = "nobyte" /\ last.reads = 1
  /\ mCurrentValidInput # <<>>
  /\ mHooks # <<>>
  /\ mFeatures # feature_None
  /\ calls = <<>> /\ out = <<>>

-----------------------------------------------------------------------------
(* Each feature with its trigger character.                                 *)

Triggers ==
  { [bit |-> feature_Help,          ch |-> SPECIAL_KEYWORD_HELP],
    [bit |-> feature_Seperator,     ch |-> SPECIAL_KEYWORD_SEPARATOR],
    [bit |-> feature_Search,        ch |-> SPECIAL_KEYWORD_SEARCH],
    [bit |-> feature_Reboot,        ch |-> SPECIAL_KEYWORD_REBOOT],
    [bit |-> feature_TabCompletion, ch |-> SPECIAL_KEYWORD_TAB] }

\* ch is the trigger of a feature whose bit is cleared
DisabledTrigger(ch) ==
  \E t \in Triggers : t.ch = ch /\ ~BitSet(mFeatures, t.bit)

\* C10 (as stated): the trigger character of a feature whose bit is cleared
\* is appended to the buffer and matched against the hook names like any
\* other character.
C10_Original ==
  [][ \A c \in GetchValues :
        (DisabledTrigger(Normalize(c)) /\ Received(c)) => MatchedAsText(c)
    ]_vars

\* C10 (amended): the trigger character of a feature whose bit is cleared
\* runs no special command; it is appended to the buffer and matched against
\* the hook names when the buffer is not full, and dropped with the buffer
\* reset when the buffer is full.
C10_DisabledTriggerIsText ==
  [][ \A c \in GetchValues :
        (DisabledTrigger(Normalize(c)) /\ Received(c)) =>
          /\ Len(mCurrentValidInput) < DIAGTASK_MAX_HOOK_INPUT_LEN
               => MatchedAsText(c)
          /\ Len(mCurrentValidInput) = DIAGTASK_MAX_HOOK_INPUT_LEN
               => Discarded
    ]_vars

\* C10 witness: no feature is enabled and the hook "?", whose name is the
\* trigger of the help command, has just been invoked.
C10_Witness ==
  /\ mFeatures = feature_None
  /\ last.op = "process" /\ last.path = "append"
  /\ \E i \in 1..Len(mHooks) :
       /\ mHooks[i].name = <<SPECIAL_KEYWORD_HELP>>
       /\ calls = << [hook |-> mHooks[i].hook, arg |-> <<>>] >>

-----------------------------------------------------------------------------
\* the character takes the ordinary path of the buffer
OrdinaryBuffering(c) ==
  IF Len(mCurrentValidInput) < DIAGTASK_MAX_HOOK_INPUT_LEN
  THEN MatchedAsText(c)
  ELSE Discarded

-----------------------------------------------------------------------------
\* the banner of the separator command with the given counter value
Banners(n) ==
  { [ev |-> "separator", count |-> n, uptime |-> u] :
      u \in IF mUptime THEN UptimeValues ELSE {0} }

-----------------------------------------------------------------------------
\* C13 (as stated): executeHook(name) calls the registered hook of that name
\* and returns true; it returns false, and calls nothing, when no hook of
\* that name is registered.
C13_ExecuteHook ==
  [][ \A name \in ExecuteValues :
        (last'.op = "executeHook" /\ executeHook(name)) =>
          LET named == { i \in 1..Len(mHooks) :
                           ~name.null /\ mHooks[i].name = name.s }
          IN  IF named # {}
              THEN /\ last'.ret
                   /\ \E i \in named, k \in 1..Len(calls') :
                        calls'[k].hook = mHooks[i].hook
              ELSE ~last'.ret /\ calls' = <<>>
    ]_vars

-----------------------------------------------------------------------------
\* the line typed so far, with the character c, without its line end
LineTyped(c) ==
  IF Normalize(c) = CH_LF THEN mCurrentValidInput ELSE Accumulated(c)

\* C14 (as stated): a callback invoked from typed input gets the complete
\* line the user entered, from its first character on, hook name included.
C14_WholeLinePassed ==
  [][ \A c \in GetchValues :
        Typed(c) =>
          \A k \in 1..Len(calls') : calls'[k].arg = LineTyped(c)
    ]_vars

-----------------------------------------------------------------------------
\* some hook of the registry hooks is a candidate of text
HasCandidate(hooks, text) ==
  \E i \in 1..Len(hooks) : IsCandidate(hooks[i].name, text)

\* C15: after every call the buffer is empty or has a candidate; a typed
\* character that leaves no candidate empties the buffer in the same call
\* and invokes no callback; tab completion never sees a non-empty buffer
\* without candidate.
C15_BufferHasCandidate ==
  [][ /\ mCurrentValidInput' = <<>> \/ HasCandidate(mHooks', mCurrentValidInput')
      /\ \A c \in GetchValues :
           (Typed(c) /\ ~HasCandidate(mHooks, Accumulated(c)))
             => (mCurrentValidInput' = <<>> /\ calls' = <<>>)
      /\ (last'.op = "process" /\ last'.path = "tab" /\ mCurrentValidInput # <<>>)
           => HasCandidate(mHooks, mCurrentValidInput)
    ]_vars

\* C15 witness: with "a?" registered and "a" typed, a character that no
\* hook continues with has just emptied the buffer; nothing was invoked.
C15_Witness ==
  /\ last.op = "process" /\ last.path = "append"
  /\ \E i \in 1..Len(mHooks) : mHooks[i].name = <<97, SPECIAL_KEYWORD_HELP>>
  /\ \A i \in 1..Len(mHooks) : mHooks[i].name[1] = 97
  /\ mCurrentValidInput = <<>>
  /\ calls = <<>>
  /\ out = << Echo(97) >>

-----------------------------------------------------------------------------
\* the character is the tab of an enabled tab completion
TabCompletes(c) ==
  Normalize(c) = SPECIAL_KEYWORD_TAB /\ BitSet(mFeatures, feature_TabCompletion)

\* C16 (as stated): when a wildcard hook is the only candidate and the
\* buffer is at least as long as the part of its name before the marker,
\* the line end invokes its callback in the same call and empties the
\* buffer; any other typed character invokes nothing and is added to the
\* buffer.
C16_StaticPartSuffices ==
  [][ \A c \in GetchValues :
        Received(c) =>
          \A i \in 1..Len(mHooks) :
            ( /\ HasWildcard(mHooks[i].name)
              /\ CandidatesOf(mCurrentValidInput) = {i}
              /\ Len(mCurrentValidInput) >= StaticLen(mHooks[i].name) ) =>
              IF Normalize(c) = CH_LF
              THEN /\ Len(calls') = 1
                   /\ calls'[1].hook = mHooks[i].hook
                   /\ mCurrentValidInput' = <<>>
              ELSE TabCompletes(c) \/
                   /\ calls' = <<>>
                   /\ mCurrentValidInput' = Accumulated(c)
    ]_vars

-----------------------------------------------------------------------------
\* C17 (as stated): whenever a typed character makes process() invoke the
\* callback of a hook without wildcard, the buffer with that character
\* equals the hook's full name.
C17_FiresOnExactName ==
  [][ \A c \in GetchValues :
        Typed(c) =>
          \A i \in 1..Len(mHooks) :
            ( /\ ~HasWildcard(mHooks[i].name)
              /\ \E k \in 1..Len(calls') : calls'[k].hook = mHooks[i].hook )
              => Accumulated(c) = mHooks[i].name
    ]_vars

-----------------------------------------------------------------------------
\* the texts privFindHooks is asked about: every text that fits the buffer,
\* over a typed letter, the line end and the wildcard marker
PrefixTexts ==
  UNION { [1..n -> {97, CH_LF, SPECIAL_KEYWORD_WILDCARD}] :
            n \in 0..DIAGTASK_MAX_HOOK_INPUT_LEN }

\* found lists exactly the positions in wanted, in ascending order
InRegistrationOrder(found, wanted) ==
  /\ Len(found) = Cardinality(wanted)
  /\ \A k \in 1..Len(found) : found[k] \in wanted
  /\ \A k \in 1..Len(found) - 1 : found[k] < found[k + 1]

\* C18: for every registry the program reaches and every text,
\* privFindHooks returns, in registration order, exactly the hooks whose
\* name agrees with the text on the first min(static length, text length)
\* characters; and a wildcard hook is returned for every text that starts
\* with its static portion, however the text goes on.
C18_FindHooksIsCandidateRule ==
  \A text \in PrefixTexts :
    LET found == privFindHooks(mHooks, text)
    IN  /\ InRegistrationOrder(found, CandidatesOf(text))
        /\ \A i \in 1..Len(mHooks) :
             ( /\ HasWildcard(mHooks[i].name)
               /\ Len(text) >= StaticLen(mHooks[i].name)
               /\ SubSeq(text, 1, StaticLen(mHooks[i].name))
                    = SubSeq(mHooks[i].name, 1, StaticLen(mHooks[i].name)) )
               => \E k \in 1..Len(found) : found[k] = i

\* a wildcard hook and a hook without wildcard are registered, the buffer
\* has grown past the wildcard hook's static portion, the search still
\* returns the wildcard hook, and some text excludes a registered hook
C18_Witness ==
  /\ last.op = "process" /\ last.path = "append"
  /\ \E i \in 1..Len(mHooks), j \in 1..Len(mHooks) :
       /\ HasWildcard(mHooks[i].name) /\ ~HasWildcard(mHooks[j].name)
       /\ StaticLen(mHooks[i].name) > 0
       /\ Len(mCurrentValidInput) > StaticLen(mHooks[i].name)
       /\ \E k \in 1..Len(privFindHooks(mHooks, mCurrentValidInput)) :
            privFindHooks(mHooks, mCurrentValidInput)[k] = i
       /\ \E text \in PrefixTexts :
            Len(privFindHooks(mHooks, text)) < Len(mHooks)

-----------------------------------------------------------------------------
\* the last k characters of text
LastChars(text, k) == SubSeq(text, Len(text) - k + 1, Len(text))

\* C19 (as stated): the buffer is the longest suffix of the input fed
\* since the last consuming action that is consistent with a hook, and is
\* empty only when no non-empty suffix is. The input fed ends with the
\* buffer and the character just read, so after a typed character that
\* invoked no callback the buffer is at least as long as every suffix of
\* these that has a candidate.
C19_Original ==
  [][ \A c \in GetchValues :
        (calls' = <<>> /\ Typed(c)) =>
          \A k \in 1..Len(Accumulated(c)) :
            HasCandidate(mHooks, LastChars(Accumulated(c), k))
              => Len(mCurrentValidInput') >= k
    ]_vars

\* C19 (amended): a process() call that read a character leaves the buffer
\* empty, or as it was (a tab-completion listing), or as it was with the
\* character appended; a non-empty buffer has a candidate; and when the
\* buffer with the typed character has no candidate the whole of it is
\* dropped with no callback, whatever its suffixes are consistent with.
C19_BufferIsRunSinceReset ==
  [][ \A c \in GetchValues :
        Received(c) =>
          /\ mCurrentValidInput' \in { <<>>, mCurrentValidInput, Accumulated(c) }
          /\ (mCurrentValidInput' = mCurrentValidInput /\ mCurrentValidInput # <<>>)
               => last'.path = "tab"
          /\ mCurrentValidInput' # <<>>
               => HasCandidate(mHooks, mCurrentValidInput')
          /\ (last'.path = "append" /\ ~HasCandidate(mHooks, Accumulated(c)))
               => (mCurrentValidInput' = <<>> /\ calls' = <<>>)
    ]_vars

\* a typed 'a' was just dropped together with the buffer, with no callback,
\* although a registered name starts with 'a'
C19_Witness ==
  /\ last.op = "process" /\ last.path = "append"
  /\ mCurrentValidInput = <<>>
  /\ calls = <<>>
  /\ out = << Echo(97) >>
  /\ HasCandidate(mHooks, << 97 >>)

-----------------------------------------------------------------------------
\* the three bytes that end a line
LineEnds == { CH_NUL, CH_CR, CH_LF }

\* C20: a process() call that read NUL, CR or LF does exactly what the call
\* would have done on each of the other two: same buffer, same callback
\* invocations with the same arguments, same output; and if, with the line
\* end stored, a wildcard hook is the only candidate and the input is as
\* long as its name, that hook's callback alone is invoked, with the buffer
\* from the wildcard's position on, and the buffer is emptied.
C20_LineEndsEquivalent ==
  [][ \A c \in LineEnds :
        Received(c) =>
          /\ \A d \in LineEnds : ProcessStep(d)
          /\ last'.path = "append" =>
               \A i \in 1..Len(mHooks) :
                 ( /\ HasWildcard(mHooks[i].name)
                   /\ CandidatesOf(Append(mCurrentValidInput, CH_LF)) = {i}
                   /\ Len(mCurrentValidInput) + 1 >= Len(mHooks[i].name) )
                   => /\ calls' = << [hook |-> mHooks[i].hook,
                                      arg  |-> SubSeq(mCurrentValidInput,
                                                      StaticLen(mHooks[i].name) + 1,
                                                      Len(mCurrentValidInput))] >>
                      /\ mCurrentValidInput' = <<>>
    ]_vars

\* a line end has just made a wildcard hook's callback run with a
\* non-empty argument; the character was echoed as the line terminator
C20_Witness ==
  /\ last.op = "process" /\ last.path = "append"
  /\ mCurrentValidInput = <<>>
  /\ Len(out) >= 1 /\ out[1] = [ev |-> "echo", ch |-> CH_LF]
  /\ \E i \in 1..Len(mHooks) :
       /\ HasWildcard(mHooks[i].name)
       /\ Len(calls) = 1 /\ calls[1].hook = mHooks[i].hook
       /\ calls[1].arg # <<>>

-----------------------------------------------------------------------------
\* the characters of name before its wildcard marker, or the whole name
StaticPart(name) == SubSeq(name, 1, StaticLen(name))

\* entry a's static portion is a prefix of, or equal to, entry b's
Shadows(hooks, a, b) ==
  /\ a # b
  /\ StaticLen(hooks[a].name) <= StaticLen(hooks[b].name)
  /\ StaticPart(hooks[a].name)
       = SubSeq(hooks[b].name, 1, StaticLen(hooks[a].name))

\* position i is in the list found
Lists(found, i) == \E k \in 1..Len(found) : found[k] = i

\* C21: when entry a's static portion is a prefix of, or equal to, entry
\* b's, every search that returns b returns a too, so b is never the only
\* hook returned; and no process() call, whatever it reads (a typed
\* character or the tab of tab completion), invokes b's callback. Two
\* entries with the same name shadow each other and neither is invoked.
C21_Shadowing ==
  /\ [] \A a \in 1..Len(mHooks), b \in 1..Len(mHooks) :
          Shadows(mHooks, a, b) =>
            \A text \in PrefixTexts :
              LET found == privFindHooks(mHooks, text)
              IN  Lists(found, b) => (Lists(found, a) /\ Len(found) >= 2)
  /\ [][ last'.op = "process" =>
            \A a \in 1..Len(mHooks), b \in 1..Len(mHooks) :
              Shadows(mHooks, a, b) =>
                \A k \in 1..Len(calls') : calls'[k].hook # mHooks[b].hook
       ]_vars

\* "a" and "aa" are registered, the buffer holds "aa" in full after the
\* last typed character, and no callback was invoked
C21_Witness ==
  /\ last.op = "process" /\ last.path = "append"
  /\ mCurrentValidInput = <<97, 97>>
  /\ calls = <<>>
  /\ \E a \in 1..Len(mHooks), b \in 1..Len(mHooks) :
       /\ mHooks[a].name = <<97>> /\ mHooks[b].name = <<97, 97>>
       /\ Shadows(mHooks, a, b)

-----------------------------------------------------------------------------
\* C22: a process() call invokes at most one hook callback, and when it
\* has invoked one (on a completed name, on the line end of a wildcard
\* hook or by tab completion) the buffer is empty when the call returns.
C22_OneCallbackThenEmpty ==
  last.op = "process" =>
    /\ Len(calls) <= 1
    /\ calls # <<>> => mCurrentValidInput = <<>>

\* tab completion has just invoked the only candidate's callback
C22_Witness ==
  /\ last.op = "process" /\ last.path = "tab"
  /\ Len(calls) = 1
  /\ \E i \in 1..Len(mHooks) : calls[1] = [hook |-> mHooks[i].hook, arg |-> <<>>]
  /\ mCurrentValidInput = <<>>

-----------------------------------------------------------------------------
-----------------------------------------------------------------------------
\* C24 (as stated): whenever tab completion lists two or more candidates,
\* the buffer is at most as long as the name of every listed candidate, and
\* so at most DIAGTASK_MAX_HOOKNAME_LEN characters long.
C24_TabSuffixInsideName ==
  [][ \A c \in GetchValues :
        ( /\ TabCompletes(c)
          /\ last'.path = "tab"
          /\ Cardinality(CandidatesOf(mCurrentValidInput)) >= 2
          /\ Received(c) ) =>
          /\ \A i \in CandidatesOf(mCurrentValidInput) :
               Len(mCurrentValidInput) <= Len(mHooks[i].name)
          /\ Len(mCurrentValidInput) <= DIAGTASK_MAX_HOOKNAME_LEN
    ]_vars

====
